---- MODULE Spec2Model ----
(***************************************************************************)
(* A model of the lameflow node graph engine (src/lameflow/node.py,        *)
(* core.py, math.py, _collections.py): the node registry, the              *)
(* INVALID/PENDING/VALID state machine, refcounted dependency edges,       *)
(* cascading invalidation and the evaluation call stack.                   *)
(*                                                                         *)
(* Every public operation (construction, value read, value assignment,     *)
(* invalidate, argument replacement) is one action.  The Python call tree  *)
(* below it is a set of recursive operators that thread a heap record h    *)
(* through the calls and return a result record                            *)
(*     [h, exc, ret, trace]                                                *)
(* where exc is the name of the Python exception that propagates out of    *)
(* the call ("none" when it returns normally).                             *)
(***************************************************************************)
EXTENDS Integers, Sequences, FiniteSets, TLC

\* ------------------------------------------------------------------ bounds
MaxListLen == 5     \* length of the list of SpecList
MaxElement == 4     \* its elements are 0..MaxElement
MaxSliceBound == 4  \* slice bounds are -MaxSliceBound..MaxSliceBound, or absent
MaxStep == 2        \* slice steps are -MaxStep..MaxStep, or absent
MaxAddedLen == 2    \* length of the lists assigned to a slice
MaxNodes == 3       \* node instances that may be allocated
MaxVal == 1         \* values handed to VarNode / ConstNode are 0..MaxVal
MaxArgs == 1        \* positional arguments handed to a constructor / args setter
MaxRefcount == 2    \* a call that would push a refcount beyond this is not made
MaxArgsLen == 2     \* an argument list is not grown beyond this by single insertions
MaxArgNodes == 2    \* node instances allocated where argument lists are mutated singly
MaxIndependentArgs == 1  \* ... and the list of an independent node not beyond this

Nodes == 1..MaxNodes
InputValues == 0..MaxVal

\* ------------------------------------------------------------------ constants of the program
None == -1          \* Python's None (the initial cached value, the base compute result)

INVALID == "INVALID"
PENDING == "PENDING"
VALID == "VALID"

NoKind == "unallocated"
Kinds == {"VarNode", "ConstNode", "AddNode", "SingleAssignNode", "ExclusiveNode"}

\* class hierarchy of core.py: what each kind inherits
IndependentKinds == {"VarNode", "ConstNode"}
SingleAssignKinds == {"ConstNode", "SingleAssignNode"}
\* kinds declared with same_key_error=True (node.py __init_subclass__)
SameKeyErrorKinds == {"ExclusiveNode"}

\* ------------------------------------------------------------------ state
VARIABLES
    kind,               \* class of each allocated node
    key,                \* Node.key attribute of each node
    by_key,             \* Node._by_key: the registry, a function key -> node
    instance_counter,   \* VarNode._instance_counter
    init_run,           \* nodes whose __init__ has completed (_init_run_for_class)
    state,              \* Node._state
    value,              \* Node._value
    args,               \* Node._args._data
    arg_refcount,       \* Node._arg_refcount (0 = no entry)
    dependents,         \* Node._dependents
    stack,              \* NodeCallStack.stack
    stack_nodes,        \* NodeCallStack._nodes
    initialized,        \* ConstNode instances whose __initialized flag is set
    _data               \* ObservableList._data of a list of integers a client holds

vars == <<kind, key, by_key, instance_counter, init_run, state, value, args,
          arg_refcount, dependents, stack, stack_nodes, initialized, _data>>

\* The heap record threaded through the operators.  Its field events is the
\* list of NodeValueEvents fired since the top-level call began, and its field
\* computed the list of the nodes whose compute function returned since then,
\* and its field invalidated the list of the nodes that Node.invalidate moved
\* from VALID to INVALID since then.
Heap ==
    [kind |-> kind, key |-> key, by_key |-> by_key,
     instance_counter |-> instance_counter, init_run |-> init_run,
     st |-> state, val |-> value, args |-> args, rc |-> arg_refcount,
     deps |-> dependents, stack |-> stack, nodes |-> stack_nodes,
     initialized |-> initialized, events |-> <<>>, computed |-> <<>>,
     invalidated |-> <<>>]

\* A failed argument mutation leaves its refcount behind (the list is
\* changed before the listeners run), so refcounts can grow without bound:
\* the calls that would take one beyond MaxRefcount are left out.
Commit(h) ==
    /\ \A n, m \in Nodes : h.rc[n][m] <= MaxRefcount
    /\ kind' = h.kind
    /\ key' = h.key
    /\ by_key' = h.by_key
    /\ instance_counter' = h.instance_counter
    /\ init_run' = h.init_run
    /\ state' = h.st
    /\ value' = h.val
    /\ args' = h.args
    /\ arg_refcount' = h.rc
    /\ dependents' = h.deps
    /\ stack' = h.stack
    /\ stack_nodes' = h.nodes
    /\ initialized' = h.initialized
    /\ _data' = _data

\* ------------------------------------------------------------------ results
Ok(h, ret) == [h |-> h, exc |-> "none", ret |-> ret, trace |-> <<>>]
Raise(h, exc) == [h |-> h, exc |-> exc, ret |-> None, trace |-> <<>>]

\* Python's recursion limit stands for unbounded recursion: a call chain
\* deeper than this ends the call with RecursionError.
RecursionLimit == 2 * MaxNodes + 2

\* Iteration order of a Python set is not specified: every call tree is run
\* under a choice nd = [ord, errFirst], where ord is the order in which node
\* sets are iterated and errFirst tells whether IndependentNode's
\* _args_modified_error listener runs before Node._on_args_changed.
Orders == {o \in [1..MaxNodes -> Nodes] : \A i, j \in 1..MaxNodes : i # j => o[i] # o[j]}
Identity == [i \in 1..MaxNodes |-> i]
\* The order of a set iteration is observable only through the place at which
\* an exception interrupts it.  The loops over sets are the cascade of
\* invalidate, which only SingleAssignNode.invalidate interrupts: while no
\* set of dependents holds a VALID single-assignment node beside another
\* node, one order stands for all.  The args setter delivers only empty
\* mutations to an IndependentNode's listeners, for which both listener
\* orders end alike (ArgChoices below draws the order for the others).  Only allocated nodes are members of a set, so the
\* orders that differ in the places of the others stand for one.
AllocatedFirst(o) ==
    \A i, j \in 1..MaxNodes :
        (i < j /\ kind[o[i]] = NoKind) => (kind[o[j]] = NoKind /\ o[i] < o[j])
Choices ==
    IF \E p \in Nodes : \E n \in dependents[p] :
           /\ kind[n] \in SingleAssignKinds
           /\ state[n] = VALID
           /\ dependents[p] # {n}
    THEN [ord : {o \in Orders : AllocatedFirst(o)}, errFirst : {TRUE}]
    ELSE [ord : {Identity}, errFirst : {TRUE}]
SetIter(S, nd) == SelectSeq(nd.ord, LAMBDA x : x \in S)

\* ------------------------------------------------------------------ NodeCallStack
\* NodeCallStack._push (node.py 302-308) and two faulty variants of it: one
\* reports the stack without the node whose push failed, one does not look
\* for the node among the executing ones.
_push_trace_is_stack(h, node) ==
    IF node \in h.nodes
    THEN [h |-> h, exc |-> "DependencyCycleError", ret |-> None, trace |-> h.stack]
    ELSE Ok([h EXCEPT !.nodes = @ \cup {node}, !.stack = Append(@, node)], None)

_push_unchecked(h, node) ==
    Ok([h EXCEPT !.nodes = @ \cup {node}, !.stack = Append(@, node)], None)

_push(h, node) ==
    IF node \in h.nodes
    THEN [h |-> h, exc |-> "DependencyCycleError", ret |-> None,
          trace |-> Append(h.stack, node)]
    ELSE Ok([h EXCEPT !.nodes = @ \cup {node}, !.stack = Append(@, node)], None)

\* a faulty variant of the pop below: the node stays in the membership set
_pop_keeping_member(h, node) ==
    IF h.stack = <<>> THEN Raise(h, "IndexError")
    ELSE IF node # h.stack[Len(h.stack)] THEN Raise(h, "TypeError")
    ELSE Ok([h EXCEPT !.stack = SubSeq(@, 1, Len(@) - 1)], None)

\* a faulty variant of the pop below: the top is popped whichever node is given
_pop_unchecked(h, node) ==
    IF h.stack = <<>> THEN Raise(h, "IndexError")
    ELSE Ok([h EXCEPT !.nodes = @ \ {node},
                      !.stack = SubSeq(@, 1, Len(@) - 1)], None)

\* NodeCallStack._pop (node.py 310-319)
_pop(h, node) ==
    IF h.stack = <<>> THEN Raise(h, "IndexError")
    ELSE IF node # h.stack[Len(h.stack)] THEN Raise(h, "TypeError")
    ELSE Ok([h EXCEPT !.nodes = @ \ {node},
                      !.stack = SubSeq(@, 1, Len(@) - 1)], None)

\* Sequencing of two calls: when the first raised, its exception propagates
\* and the rest does not run; otherwise the rest runs on the first's result.
Then(r, rest(_)) == IF r.exc # "none" THEN r ELSE rest(r)

\* _NodeStackFrame.__exit__ after the body of a with block ended with result
\* body: the frame is popped (popped is the result of the pop); an exception
\* of the pop replaces the body's outcome.
FrameExitWith(body, popped) ==
    IF popped.exc # "none" THEN popped ELSE [body EXCEPT !.h = popped.h]

\* a faulty variant: the frame is popped only when the body returned
FrameExit_unless_raised(body, node) ==
    IF body.exc # "none" THEN body ELSE FrameExitWith(body, _pop(body.h, node))

FrameExit(body, node) == FrameExitWith(body, _pop(body.h, node))

\* ------------------------------------------------------------------ Node.invalidate
RECURSIVE invalidate(_, _, _, _), invalidate_dependents(_, _, _, _)

\* "self.state = Node.State.INVALID" in Node.invalidate (node.py 247)
set_invalid(h, n) == [h EXCEPT !.st[n] = INVALID, !.invalidated = Append(@, n)]

\* Node.invalidate (node.py 242-249)
Node_invalidate(h, n, nd, d) ==
    IF h.st[n] = VALID
    THEN Then(_push(h, n), LAMBDA p :
             FrameExit(invalidate_dependents(set_invalid(p.h, n),
                                             SetIter(h.deps[n], nd), nd, d), n))
    ELSE Ok(h, None)

\* a faulty variant of the dispatch below: a single-assignment node is
\* invalidated like any other
invalidate_any(h, n, nd, d) ==
    IF d = 0 THEN Raise(h, "RecursionError") ELSE Node_invalidate(h, n, nd, d - 1)

\* n.invalidate(), dispatched on the class of n: SingleAssignNode.invalidate
\* (core.py 18-23) raises on a VALID node and defers to Node.invalidate
\* otherwise; d is the call depth left
invalidate(h, n, nd, d) ==
    IF d = 0 THEN Raise(h, "RecursionError")
    ELSE IF h.kind[n] \in SingleAssignKinds /\ h.st[n] = VALID THEN Raise(h, "TypeError")
    ELSE Node_invalidate(h, n, nd, d - 1)

\* the loop "for dependent in self._dependents: dependent.invalidate()"
invalidate_dependents(h, todo, nd, d) ==
    IF todo = <<>> THEN Ok(h, None)
    ELSE Then(invalidate(h, Head(todo), nd, d), LAMBDA r :
             invalidate_dependents(r.h, Tail(todo), nd, d))

\* ------------------------------------------------------------------ Node.value
\* NodeValueEvent (event.py 51-57)
NodeValueEvent(n, old_value, new_value) ==
    [node |-> n, old_value |-> old_value, new_value |-> new_value]

\* the assignments that end the Node.value setter (node.py 278-282)
store_value(h, n, new_value) ==
    Ok([h EXCEPT !.val[n] = new_value, !.st[n] = VALID,
                 !.events = Append(@, NodeValueEvent(n, h.val[n], new_value))], None)

\* a faulty variant of the setter below: no comparison with the cached value
Node_value_set_unchecked(h, n, new_value, nd, d) ==
    Then(invalidate(h, n, nd, d), LAMBDA r : store_value(r.h, n, new_value))

\* Node.value setter (node.py 271-282)
Node_value_set(h, n, new_value, nd, d) ==
    IF h.val[n] = new_value THEN Ok(h, None)
    ELSE Then(invalidate(h, n, nd, d), LAMBDA r : store_value(r.h, n, new_value))

\* "n.value = new_value", dispatched on the class of n: the ConstNode.value
\* setter (core.py 46-54) raises once __initialized is set, and sets it after
\* the first assignment
value_set(h, n, new_value, nd, d) ==
    IF h.kind[n] # "ConstNode" THEN Node_value_set(h, n, new_value, nd, d)
    ELSE IF n \in h.initialized THEN Raise(h, "TypeError")
    ELSE Then(Node_value_set(h, n, new_value, nd, d), LAMBDA r :
             Ok([r.h EXCEPT !.initialized = @ \cup {n}], None))

RECURSIVE value_get(_, _, _, _), reduce_add(_, _, _, _, _)

\* operator.add on two values: None + int raises TypeError
add(h, x, y) == IF x = None \/ y = None THEN Raise(h, "TypeError") ELSE Ok(h, x + y)

\* AddNode.compute_value (math.py 22-23): functools.reduce(operator.add, ...)
\* over the lazily read argument values; acc is the sum so far
reduce_add(h, rest, acc, nd, d) ==
    IF rest = <<>> THEN Ok(h, acc)
    ELSE Then(value_get(h, Head(rest), nd, d), LAMBDA r :
         Then(add(r.h, acc, r.ret), LAMBDA s :
             reduce_add(s.h, Tail(rest), s.ret, nd, d)))

\* n.compute_value(*n.args), dispatched on the class of n: the base
\* Node.compute_value (node.py 251-257) returns None; AddNode.compute_value
\* reduces its arguments, and reduce() of no argument raises TypeError; the
\* first value read goes through the same reduction with no sum so far
compute_value(h, n, nd, d) ==
    IF h.kind[n] # "AddNode" THEN Ok(h, None)
    ELSE IF h.args[n] = <<>> THEN Raise(h, "TypeError")
    ELSE Then(value_get(h, Head(h.args[n]), nd, d), LAMBDA first :
             reduce_add(first.h, Tail(h.args[n]), first.ret, nd, d))

\* what the getter returns: the cached value (node.py 264, 269)
return_value(h, n) == Ok(h, h.val[n])

\* n.compute_value(...) has returned (node.py 268): the heap's record of the
\* compute functions run by the call, in order of completion, grows by n
compute_returned(h, n) == [h EXCEPT !.computed = Append(@, n)]

\* the body of the with block of the Node.value getter (node.py 267-269)
value_body(h, n, nd, d) ==
    Then(compute_value([h EXCEPT !.st[n] = PENDING], n, nd, d), LAMBDA c :
    Then(value_set(compute_returned(c.h, n), n, c.ret, nd, d), LAMBDA s :
        return_value(s.h, n)))

\* Node.value getter (node.py 259-269)
value_get(h, n, nd, d) ==
    IF d = 0 THEN Raise(h, "RecursionError")
    ELSE IF h.st[n] = VALID THEN return_value(h, n)
    ELSE Then(_push(h, n), LAMBDA p : FrameExit(value_body(p.h, n, nd, d - 1), n))

\* ------------------------------------------------------------------ ObservableList
\* An optional integer (a slice's start, stop or step, which may be None) is
\* a sequence of at most one integer.
Absent == <<>>
Some(i) == <<i>>
Slice(start, stop, step) == [start |-> start, stop |-> stop, step |-> step]

Min(a, b) == IF a <= b THEN a ELSE b
Max(a, b) == IF a >= b THEN a ELSE b

\* The outcome of a list operation: the exception it raised, the contents it
\* leaves, and the mutation records it handed to _notify, in order.
ListResult(exc, data, notes) == [exc |-> exc, data |-> data, notes |-> notes]
Mutation(index, removed, added) == [index |-> index, removed |-> removed, added |-> added]

\* ObservableList._index_normalize (_collections.py 56-63)
_index_normalize(len, i) ==
    IF i = Absent \/ i[1] >= 0 THEN i ELSE Some(len - i[1])

\* ObservableList._slice_lower (_collections.py 100-104)
_slice_lower(len, i, end_offset) ==
    IF i = Absent THEN 0 + end_offset ELSE Min(i[1], len + end_offset)

\* ObservableList._slice_upper (_collections.py 106-110)
_slice_upper(len, i, end_offset) ==
    IF i = Absent THEN len + end_offset ELSE Min(i[1], len + end_offset)

RECURSIVE while_indices(_, _, _)
\* the two while loops of _slice_indices (_collections.py 88-98)
while_indices(index, j, k) ==
    IF (k > 0 /\ index < j) \/ (k < 0 /\ index > j)
    THEN <<index>> \o while_indices(index + k, j, k)
    ELSE <<>>

\* _slice_indices after the step was found to be k # 0 (_collections.py 79-98)
indices_for_step(len, i, j, k) ==
    IF k > 0
    THEN while_indices(_slice_lower(len, i, 0), _slice_upper(len, j, 0), k)
    ELSE while_indices(_slice_upper(len, i, -1), _slice_lower(len, j, -1), k)

\* ObservableList._slice_indices (_collections.py 65-98); ret is the list of
\* indices
_slice_indices(len, s) ==
    IF s.step = Some(0) THEN [exc |-> "ValueError", ret |-> <<>>]
    ELSE [exc |-> "none",
          ret |-> indices_for_step(len, _index_normalize(len, s.start),
                                   _index_normalize(len, s.stop),
                                   IF s.step = Absent THEN 1 ELSE s.step[1])]

\* _is_extended_slice (_collections.py 160-163)
_is_extended_slice(s) == s.step # Absent /\ s.step # Some(1)

\* Python's list: the bound of a unit-step slice, clamped to the list
slice_bound(len, i, default) ==
    IF i = Absent THEN default
    ELSE IF i[1] < 0 THEN Max(i[1] + len, 0)
    ELSE Min(i[1], len)

slice_start(data, s) == slice_bound(Len(data), s.start, 0)
slice_stop(data, s) == Max(slice_bound(Len(data), s.stop, Len(data)), slice_start(data, s))

\* Python's list: self._data[key] for a unit-step slice (_collections.py 116)
data_getslice(data, s) == SubSeq(data, slice_start(data, s) + 1, slice_stop(data, s))

\* Python's list: self._data[key] = added for a unit-step slice
\* (_collections.py 117)
data_setslice(data, s, added) ==
    SubSeq(data, 1, slice_start(data, s)) \o added
        \o SubSeq(data, slice_stop(data, s) + 1, Len(data))

\* "key.start or 0" (_collections.py 118)
start_or_0(s) == IF s.start = Absent THEN 0 ELSE s.start[1]

\* ObservableList.__setitem__ for an integer key, after "key = len(self) +
\* key" was applied to a negative one (_collections.py 132-134): Python's
\* list raises IndexError outside -len .. len-1 and counts a negative index
\* from the end
setitem_at(data, i, element) ==
    IF i >= Len(data) \/ i < 0 - Len(data)
    THEN ListResult("IndexError", data, <<>>)
    ELSE ListResult("none",
                    [data EXCEPT ![(i % Len(data)) + 1] = element],
                    <<Mutation(i, <<data[(i % Len(data)) + 1]>>, <<element>>)>>)

\* ObservableList.__setitem__ for an integer key (_collections.py 127-134)
setitem_int(data, i, element) ==
    setitem_at(data, IF i < 0 THEN Len(data) + i ELSE i, element)

\* the steps of an operation that runs one list operation per index: the
\* records of the steps are delivered in order, and a step that raises ends
\* the operation
after_step(before, step) ==
    ListResult(step.exc, step.data, before.notes \o step.notes)

RECURSIVE setitem_each(_, _, _)
\* "for index, element in zip(indices, added): self[index] = element"
\* (_collections.py 125-126); r is the outcome so far
setitem_each(r, indices, added) ==
    IF indices = <<>> \/ r.exc # "none" THEN r
    ELSE setitem_each(after_step(r, setitem_int(r.data, Head(indices), Head(added))),
                      Tail(indices), Tail(added))

\* the extended-slice branch of __setitem__ once the indices are computed
\* (_collections.py 121-126)
setitem_indices(data, ix, added) ==
    IF ix.exc # "none" THEN ListResult(ix.exc, data, <<>>)
    ELSE IF Len(ix.ret) # Len(added) THEN ListResult("ValueError", data, <<>>)
    ELSE setitem_each(ListResult("none", data, <<>>), ix.ret, added)

\* ObservableList.__setitem__ for a slice key (_collections.py 113-126)
setitem_slice(data, s, added) ==
    IF ~_is_extended_slice(s)
    THEN ListResult("none", data_setslice(data, s, added),
                    <<Mutation(start_or_0(s), data_getslice(data, s), added)>>)
    ELSE setitem_indices(data, _slice_indices(Len(data), s), added)

\* ObservableList.__delitem__ for an integer key (_collections.py 150-151):
\* "self[key:key] = []"
delitem_int(data, i) == setitem_slice(data, Slice(Some(i), Some(i), Absent), <<>>)

Reverse(seq) == [i \in 1..Len(seq) |-> seq[Len(seq) + 1 - i]]

RECURSIVE delitem_each(_, _)
\* "for index in indices: del self[index]" (_collections.py 148-149)
delitem_each(r, indices) ==
    IF indices = <<>> \/ r.exc # "none" THEN r
    ELSE delitem_each(after_step(r, delitem_int(r.data, Head(indices))), Tail(indices))

\* the extended-slice branch of __delitem__ once the indices are computed
\* (_collections.py 143-149)
delitem_indices(data, ix, step) ==
    IF ix.exc # "none" THEN ListResult(ix.exc, data, <<>>)
    ELSE delitem_each(ListResult("none", data, <<>>),
                      IF step > 0 THEN Reverse(ix.ret) ELSE ix.ret)

\* ObservableList.__delitem__ for a slice key (_collections.py 137-149)
delitem_slice(data, s) ==
    IF ~_is_extended_slice(s) THEN setitem_slice(data, s, <<>>)
    ELSE delitem_indices(data, _slice_indices(Len(data), s), s.step[1])

\* ObservableList.insert (_collections.py 153-154)
insert(data, index, element) ==
    setitem_slice(data, Slice(Some(index), Some(index), Absent), <<element>>)

\* ObservableList.clear (_collections.py 156-157)
clear(data) == delitem_slice(data, Slice(Absent, Absent, Absent))

\* ------------------------------------------------------------------ argument bookkeeping
\* the refcount update of Node._on_arg_add (node.py 131-135)
count_add(h, n, arg) ==
    IF h.rc[n][arg] > 0
    THEN Ok([h EXCEPT !.rc[n][arg] = @ + 1], None)
    ELSE Ok([h EXCEPT !.deps[arg] = @ \cup {n}, !.rc[n][arg] = 1], None)

\* Node._on_arg_add (node.py 129-136)
_on_arg_add(h, n, arg, nd, d) ==
    Then(invalidate(h, n, nd, d), LAMBDA r : count_add(r.h, n, arg))

\* a faulty variant of the update below: every removal drops the dependent
\* edge, whatever the count
count_remove_unlinking(h, n, arg) ==
    IF h.rc[n][arg] = 0 THEN Raise(h, "KeyError")
    ELSE Ok([h EXCEPT !.rc[n][arg] = @ - 1, !.deps[arg] = @ \ {n}], None)

\* the refcount update of Node._on_arg_remove (node.py 140-143); a missing
\* refcount entry, or a missing member of _dependents, raises KeyError
count_remove(h, n, arg) ==
    IF h.rc[n][arg] = 0 THEN Raise(h, "KeyError")
    ELSE IF h.rc[n][arg] > 1 THEN Ok([h EXCEPT !.rc[n][arg] = @ - 1], None)
    ELSE IF n \notin h.deps[arg] THEN Raise([h EXCEPT !.rc[n][arg] = 0], "KeyError")
    ELSE Ok([h EXCEPT !.rc[n][arg] = 0, !.deps[arg] = @ \ {n}], None)

\* Node._on_arg_remove (node.py 138-144)
_on_arg_remove(h, n, arg, nd, d) ==
    Then(invalidate(h, n, nd, d), LAMBDA r : count_remove(r.h, n, arg))

RECURSIVE on_each_added(_, _, _, _, _), on_each_removed(_, _, _, _, _)

\* "for arg in mutation.added: self._on_arg_add(arg)"
on_each_added(h, n, added, nd, d) ==
    IF added = <<>> THEN Ok(h, None)
    ELSE Then(_on_arg_add(h, n, Head(added), nd, d), LAMBDA r :
             on_each_added(r.h, n, Tail(added), nd, d))

\* "for arg in mutation.removed: self._on_arg_remove(arg)"
on_each_removed(h, n, removed, nd, d) ==
    IF removed = <<>> THEN Ok(h, None)
    ELSE Then(_on_arg_remove(h, n, Head(removed), nd, d), LAMBDA r :
             on_each_removed(r.h, n, Tail(removed), nd, d))

\* Node._on_args_changed (node.py 146-150)
_on_args_changed(h, n, removed, added, nd, d) ==
    Then(on_each_added(h, n, added, nd, d), LAMBDA r :
        on_each_removed(r.h, n, removed, nd, d))

\* IndependentNode._args_modified_error (core.py 37-39)
_args_modified_error(h) == Raise(h, "TypeError")

\* whether _args_modified_error listens to the args of n: IndependentNode's
\* __init__ registers it as its last step (core.py 34)
HasErrorListener(h, n) == h.kind[n] \in IndependentKinds /\ n \in h.init_run

\* _ObservableCollection._notify (_collections.py 19-22) for the args list of
\* node n: its listeners are _on_args_changed (node.py 195) and, on an
\* independent node, _args_modified_error, run in the order of the set.
_notify(h, n, removed, added, nd, d) ==
    IF HasErrorListener(h, n) /\ nd.errFirst THEN _args_modified_error(h)
    ELSE Then(_on_args_changed(h, n, removed, added, nd, d), LAMBDA r :
             IF HasErrorListener(h, n) THEN _args_modified_error(r.h) ELSE r)

\* ObservableList.clear (_collections.py 156-157): del self[:] is the slice
\* assignment self[:] = [] (_collections.py 116-118, 139)
list_clear(h, n, nd, d) ==
    _notify([h EXCEPT !.args[n] = <<>>], n, h.args[n], <<>>, nd, d)

\* MutableSequence.append -> ObservableList.insert(len(self), v)
\* (_collections.py 153-154, 116-118)
list_append(h, n, v, nd, d) ==
    _notify([h EXCEPT !.args[n] = Append(@, v)], n, <<>>, <<v>>, nd, d)

RECURSIVE list_extend(_, _, _, _, _)
\* MutableSequence.extend: append each element in turn
list_extend(h, n, values, nd, d) ==
    IF values = <<>> THEN Ok(h, None)
    ELSE Then(list_append(h, n, Head(values), nd, d), LAMBDA r :
             list_extend(r.h, n, Tail(values), nd, d))

\* Node.args setter (node.py 226-230)
args_set(h, n, values, nd, d) ==
    Then(list_clear(h, n, nd, d), LAMBDA r : list_extend(r.h, n, values, nd, d))

\* A single mutation of the args list of node n, of which m is the outcome
\* on the list (_collections.py 116-118, 132-134): the list is changed, then
\* the mutation record is handed to the listeners.
args_mutate(h, n, m, nd, d) ==
    IF m.exc # "none" THEN Raise(h, m.exc)
    ELSE _notify([h EXCEPT !.args[n] = m.data], n,
                 m.notes[1].removed, m.notes[1].added, nd, d)

\* n.args.insert(index, v)
args_insert(h, n, index, v, nd, d) ==
    args_mutate(h, n, insert(h.args[n], index, v), nd, d)

\* n.args[i] = v
args_setitem(h, n, i, v, nd, d) ==
    args_mutate(h, n, setitem_int(h.args[n], i, v), nd, d)

\* del n.args[i]
args_delitem(h, n, i, nd, d) ==
    args_mutate(h, n, delitem_int(h.args[n], i), nd, d)

\* del n.args[start:stop]
args_delslice(h, n, start, stop, nd, d) ==
    args_mutate(h, n, delitem_slice(h.args[n], Slice(start, stop, Absent)), nd, d)

\* ------------------------------------------------------------------ construction
NoNode == 0

\* Node._by_key.get(k): the registry is a set of <<key, node>> entries
by_key_get(h, k) ==
    IF \E e \in h.by_key : e[1] = k
    THEN (CHOOSE e \in h.by_key : e[1] = k)[2]
    ELSE NoNode

\* a faulty variant of the registration below: the new entry evicts the others
by_key_put_evicting(h, k, instance) == [h EXCEPT !.by_key = {<<k, instance>>}]

\* Node._by_key[k] = instance
by_key_put(h, k, instance) ==
    [h EXCEPT !.by_key = {e \in @ : e[1] # k} \cup {<<k, instance>>}]

\* object.__new__: the next instance that has not been allocated
Unallocated(h) == {n \in Nodes : h.kind[n] = NoKind}
new_instance(h) == CHOOSE n \in Unallocated(h) : \A m \in Unallocated(h) : n <= m

\* Node.key (node.py 158-181) and VarNode.key (core.py 72-75): the result
\* carries the key in ret and the bumped counter in h
key_of(h, cls, cargs) ==
    IF cls = "VarNode"
    THEN Ok([h EXCEPT !.instance_counter = @ + 1], <<cls, <<h.instance_counter + 1>>>>)
    ELSE Ok(h, <<cls, cargs>>)

\* Node._init (node.py 183-205)
_init(h, n, cls, k) ==
    [h EXCEPT !.kind[n] = cls, !.key[n] = k, !.st[n] = INVALID, !.val[n] = None,
              !.args[n] = <<>>, !.rc[n] = [m \in Nodes |-> 0], !.deps[n] = {}]

\* raise SameKeyError(key, existing.__class__, new_class) (node.py 116):
\* SameKeyError.__init__ (node.py 350) is declared without self, so the call
\* passes one positional argument too many and Python raises TypeError
\* instead of constructing the SameKeyError.
raise_SameKeyError(h) == Raise(h, "TypeError")

\* the branch of Node.__new__ taken when the key is not registered
\* (node.py 110-114)
new_node(h, cls, k, instance) ==
    Ok(_init(by_key_put(h, k, instance), instance, cls, k), instance)

\* Node.__new__ after the key was computed (node.py 109-118)
lookup(h, cls, k, existing) ==
    IF existing = NoNode THEN new_node(h, cls, k, new_instance(h))
    ELSE IF h.kind[existing] \in SameKeyErrorKinds THEN raise_SameKeyError(h)
    ELSE Ok(h, existing)

\* Node.__new__ (node.py 107-118); ret is the instance returned
__new__(h, cls, cargs) ==
    Then(key_of(h, cls, cargs), LAMBDA kr :
        lookup(kr.h, cls, kr.ret, by_key_get(kr.h, kr.ret)))

\* Node.__init__ (node.py 207-210); the keyword arguments are empty
Node___init__(h, n, cargs, nd, d) == args_set(h, n, cargs, nd, d)

\* the __init__ of class cls: IndependentNode.__init__ (core.py 30-35)
\* assigns the value after Node.__init__ ran without arguments
class_init(h, n, cls, cargs, nd, d) ==
    IF cls \notin IndependentKinds THEN Node___init__(h, n, cargs, nd, d)
    ELSE Then(Node___init__(h, n, <<>>, nd, d), LAMBDA r :
             value_set(r.h, n, cargs[1], nd, d))

\* a faulty variant of the wrapper below: __init__ runs on every construction
init_wrapper_unguarded(h, n, cls, cargs, nd, d) ==
    Then(class_init(h, n, cls, cargs, nd, d), LAMBDA r :
        Ok([r.h EXCEPT !.init_run = @ \cup {n}], n))

\* the __init__ as wrapped by @nodeclass (node.py 32-37): it runs once per
\* instance
init_wrapper(h, n, cls, cargs, nd, d) ==
    IF n \in h.init_run THEN Ok(h, n)
    ELSE Then(class_init(h, n, cls, cargs, nd, d), LAMBDA r :
             Ok([r.h EXCEPT !.init_run = @ \cup {n}], n))

\* cls(*cargs): type.__call__ runs __new__ and then __init__ on its result
construct(h, cls, cargs, nd, d) ==
    Then(__new__(h, cls, cargs), LAMBDA r :
        init_wrapper(r.h, r.ret, cls, cargs, nd, d))

\* ------------------------------------------------------------------ the top-level calls
Allocated == {n \in Nodes : kind[n] # NoKind}

SeqsUpTo(S, len) == UNION {[1..l -> S] : l \in 0..len}

\* the constructor arguments a client can pass to class cls: a value, or at
\* most len argument nodes
ConstructorArgs(cls, len) ==
    IF cls \in IndependentKinds THEN {<<v>> : v \in InputValues}
    ELSE SeqsUpTo(Allocated, len)

\* Every action commits the heap its call leaves behind, whether the call
\* returned or raised: a Python exception undoes nothing.

\* whether cls(*cargs) finds an instance to return: the registered one, or
\* one of the MaxNodes instances that is still unallocated
CanConstruct(cls, cargs) ==
    IF cls # "VarNode" /\ by_key_get(Heap, <<cls, cargs>>) # NoNode THEN TRUE
    ELSE Unallocated(Heap) # {}

\* node = cls(*cargs) for a class of K and at most len argument nodes
Construct(K, len) ==
    \E cls \in K : \E cargs \in ConstructorArgs(cls, len) : \E nd \in Choices :
        /\ CanConstruct(cls, cargs)
        /\ Commit(construct(Heap, cls, cargs, nd, RecursionLimit).h)

\* node.value
GetValue ==
    \E n \in Allocated : \E nd \in Choices :
        Commit(value_get(Heap, n, nd, RecursionLimit).h)

\* node.value = v on an independent node
SetValue ==
    \E n \in Allocated : \E v \in InputValues : \E nd \in Choices :
        /\ kind[n] \in IndependentKinds
        /\ Commit(value_set(Heap, n, v, nd, RecursionLimit).h)

\* node.value = v on a single-assignment node that is not independent
AssignValue ==
    \E n \in Allocated : \E v \in InputValues : \E nd \in Choices :
        /\ kind[n] \in SingleAssignKinds \ IndependentKinds
        /\ Commit(value_set(Heap, n, v, nd, RecursionLimit).h)

\* node.invalidate()
Invalidate ==
    \E n \in Allocated : \E nd \in Choices :
        Commit(invalidate(Heap, n, nd, RecursionLimit).h)

\* node.args = values
SetArgs ==
    \E n \in Allocated : \E values \in SeqsUpTo(Allocated, MaxArgs) : \E nd \in Choices :
        Commit(args_set(Heap, n, values, nd, RecursionLimit).h)

\* the indices and the slice bounds a client hands to an argument list
ArgIndices == (0 - MaxArgsLen)..MaxArgsLen
ArgBounds == {Absent} \cup {Some(i) : i \in 0..MaxArgsLen}

\* The choices under which a single mutation of n's argument list runs: on
\* an independent node the mutation record can be non-empty, and then it
\* matters which of the two listeners runs first.
ArgChoices(n) ==
    IF kind[n] \in IndependentKinds
    THEN {[nd EXCEPT !.errFirst = b] : nd \in Choices, b \in BOOLEAN}
    ELSE Choices

\* node.args.insert(index, v)
InsertArg ==
    \E n \in Allocated : \E index \in ArgIndices : \E v \in Allocated : \E nd \in ArgChoices(n) :
        /\ Len(args[n]) < (IF kind[n] \in IndependentKinds THEN MaxIndependentArgs
                                                           ELSE MaxArgsLen)
        /\ Commit(args_insert(Heap, n, index, v, nd, RecursionLimit).h)

\* node.args[i] = v
ReplaceArg ==
    \E n \in Allocated : \E i \in ArgIndices : \E v \in Allocated : \E nd \in ArgChoices(n) :
        Commit(args_setitem(Heap, n, i, v, nd, RecursionLimit).h)

\* del node.args[i]
DeleteArg ==
    \E n \in Allocated : \E i \in ArgIndices : \E nd \in ArgChoices(n) :
        Commit(args_delitem(Heap, n, i, nd, RecursionLimit).h)

\* del node.args[start:stop]
DeleteArgSlice ==
    \E n \in Allocated : \E start, stop \in ArgBounds : \E nd \in ArgChoices(n) :
        Commit(args_delslice(Heap, n, start, stop, nd, RecursionLimit).h)

Init ==
    /\ kind = [n \in Nodes |-> NoKind]
    /\ key = [n \in Nodes |-> <<>>]
    /\ by_key = {}
    /\ instance_counter = -1
    /\ init_run = {}
    /\ state = [n \in Nodes |-> INVALID]
    /\ value = [n \in Nodes |-> None]
    /\ args = [n \in Nodes |-> <<>>]
    /\ arg_refcount = [n \in Nodes |-> [m \in Nodes |-> 0]]
    /\ dependents = [n \in Nodes |-> {}]
    /\ stack = <<>>
    /\ stack_nodes = {}
    /\ initialized = {}
    /\ _data = <<>>

\* The engine under its value API: variables and computed nodes.
CoreKinds == {"VarNode", "AddNode"}
Next == Construct(CoreKinds, MaxArgs) \/ GetValue \/ SetValue \/ Invalidate \/ SetArgs
Spec == Init /\ [][Next]_vars

\* The engine with single-assignment nodes that the client assigns; the
\* nodes are constructed without argument nodes and wired by the args setter.
AssignKinds == {"VarNode", "AddNode", "SingleAssignNode"}
NextAssign ==
    Construct(AssignKinds, 0) \/ GetValue \/ SetValue \/ AssignValue \/ Invalidate \/ SetArgs
SpecAssign == Init /\ [][NextAssign]_vars

\* The registry under every kind of node.
NextRegistry == Construct(Kinds, MaxArgs) \/ GetValue \/ SetValue \/ Invalidate \/ SetArgs
SpecRegistry == Init /\ [][NextRegistry]_vars

\* The engine under single mutations of the argument lists; at most
\* MaxArgNodes nodes are constructed, without argument nodes.
ConstructFew == Cardinality(Allocated) < MaxArgNodes /\ Construct(CoreKinds, 0)
NextArgs ==
    \/ ConstructFew \/ GetValue
    \/ InsertArg \/ ReplaceArg \/ DeleteArg \/ DeleteArgSlice
SpecArgs == Init /\ [][NextArgs]_vars

\* The engine with the two kinds of single-assignment node: constants, and
\* single-assignment nodes that the client assigns and wires to variables.
SingleKinds == {"VarNode", "ConstNode", "SingleAssignNode"}
NextSingle ==
    Construct(SingleKinds, 0) \/ GetValue \/ SetValue \/ AssignValue \/ Invalidate \/ SetArgs
SpecSingle == Init /\ [][NextSingle]_vars

\* ------------------------------------------------------------------ the call stack on its own
\* NodeCallStack._push(n), as _NodeStackFrame.__enter__ calls it when an
\* evaluation enters a node
Push ==
    \E n \in Allocated : \E r \in {_push(Heap, n)} : Commit(r.h)

\* NodeCallStack._pop(n), as _NodeStackFrame.__exit__ calls it
Pop ==
    \E n \in Allocated : \E r \in {_pop(Heap, n)} : Commit(r.h)

\* The call stack under any sequence of pushes and pops, the states that
\* evaluations pass through between their frames' entries and exits.
NextStack == Construct(CoreKinds, 0) \/ Push \/ Pop
SpecStack == Init /\ [][NextStack]_vars

\* ------------------------------------------------------------------ a list on its own
\* the elements, indices, slice bounds and steps a client hands to the list
Elements == 0..MaxElement
ListIndices == (0 - MaxListLen - 1)..(MaxListLen + 1)
SliceBounds == {Absent} \cup {Some(i) : i \in (0 - MaxSliceBound)..MaxSliceBound}
SliceSteps == {Absent} \cup {Some(k) : k \in (0 - MaxStep)..MaxStep}
Slices == {Slice(i, j, k) : i \in SliceBounds, j \in SliceBounds, k \in SliceSteps}
AddedLists == SeqsUpTo({MaxElement}, MaxAddedLen)

\* the list operation returned or raised: the list keeps what the operation
\* left in it, within the length bound, and no node is touched
CommitList(r) ==
    /\ Len(r.data) <= MaxListLen
    /\ _data' = r.data
    /\ UNCHANGED <<kind, key, by_key, instance_counter, init_run, state, value, args,
                   arg_refcount, dependents, stack, stack_nodes, initialized>>

\* lst[i] = element
ListSetItem ==
    \E i \in ListIndices : \E element \in Elements :
        \E r \in {setitem_int(_data, i, element)} : CommitList(r)

\* lst[start:stop:step] = added
ListSetSlice ==
    \E s \in Slices : \E added \in AddedLists :
        \E r \in {setitem_slice(_data, s, added)} : CommitList(r)

\* del lst[i]
ListDelItem ==
    \E i \in ListIndices : \E r \in {delitem_int(_data, i)} : CommitList(r)

\* del lst[start:stop:step]
ListDelSlice ==
    \E s \in Slices : \E r \in {delitem_slice(_data, s)} : CommitList(r)

\* lst.insert(index, element)
ListInsert ==
    \E index \in ListIndices : \E element \in Elements :
        \E r \in {insert(_data, index, element)} : CommitList(r)

\* lst.clear()
ListClear == \E r \in {clear(_data)} : CommitList(r)

\* An observable list of integers under every mutating operation.
NextList ==
    ListSetItem \/ ListSetSlice \/ ListDelItem \/ ListDelSlice \/ ListInsert \/ ListClear
SpecList == Init /\ [][NextList]_vars

\* ================================================================== properties
\* The properties below speak about a call made in a reachable state: the
\* result record of the call's operator, applied to the current heap, gives
\* the exception, the returned value and the heap the call leaves behind.

ArgsOf(h, n) == {h.args[n][i] : i \in 1..Len(h.args[n])}

RECURSIVE DependentsClosure(_, _)
DependentsClosure(h, S) ==
    LET T == S \cup {a \in Nodes : ArgsOf(h, a) \cap S # {}}
    IN  IF T = S THEN S ELSE DependentsClosure(h, T)

\* the nodes that depend on b, directly or transitively, through argument edges
TransitiveDependents(h, b) == DependentsClosure(h, {a \in Nodes : b \in ArgsOf(h, a)})

RECURSIVE Expected(_, _, _), ExpectedSum(_, _, _)
\* The value n ought to have in heap h: the compute function of n applied to
\* the values its arguments ought to have, down to the nodes that hold an
\* assigned value.  The result is a set: empty where no value is defined
\* (a cyclic chain, an addition that raises).
Expected(h, n, fuel) ==
    IF fuel = 0 THEN {}
    ELSE IF h.kind[n] = "AddNode"
    THEN IF h.args[n] = <<>> THEN {} ELSE ExpectedSum(h, h.args[n], fuel - 1)
    ELSE {h.val[n]}

ExpectedSum(h, a, fuel) ==
    IF Len(a) = 1 THEN Expected(h, a[1], fuel)
    ELSE {x + y : x \in ExpectedSum(h, SubSeq(a, 1, Len(a) - 1), fuel) \ {None},
                  y \in Expected(h, a[Len(a)], fuel) \ {None}}

\* C1: every get_value(n) that returns yields the value obtained by applying
\* n's compute function to the current values of its argument nodes,
\* recursively down to the variable nodes; never a stale cached value.
C1_GetValueIsFresh ==
    \A n \in Allocated : \A nd \in Choices :
        LET r == value_get(Heap, n, nd, RecursionLimit)
        IN  r.exc = "none" => {r.ret} = Expected(r.h, n, RecursionLimit)

\* C2: when invalidate(b) takes b out of VALID, or set_value replaces the
\* value of b, then on return every node that depends on b directly or
\* transitively through argument edges is not VALID.
C2_CascadeIsExhaustive ==
    \A b \in Allocated : \A nd \in Choices :
        /\ LET r == invalidate(Heap, b, nd, RecursionLimit)
           IN  (state[b] = VALID /\ r.exc = "none") =>
                   \A a \in TransitiveDependents(r.h, b) : r.h.st[a] # VALID
        /\ \A v \in InputValues :
               LET r == value_set(Heap, b, v, nd, RecursionLimit)
               IN  (kind[b] \in IndependentKinds /\ r.exc = "none" /\ r.h.val[b] # value[b]) =>
                       \A a \in TransitiveDependents(r.h, b) \ {b} : r.h.st[a] # VALID

\* C3: after get_value(n) on a node that is not VALID returns without error,
\* n is VALID, also when the recomputed value equals the cached one.
C3_GetValueValidates ==
    \A n \in Allocated : \A nd \in Choices :
        LET r == value_get(Heap, n, nd, RecursionLimit)
        IN  (state[n] # VALID /\ r.exc = "none") => r.h.st[n] = VALID

\* a computed node that is not VALID and whose computation first reads itself
ReadsItself(a) ==
    /\ kind[a] = "AddNode" /\ state[a] # VALID
    /\ args[a] # <<>> /\ Head(args[a]) = a

\* a computed node a that is not VALID and first reads b, which is computed,
\* not VALID and first reads a
ReadsItselfThrough(a, b) ==
    /\ a # b
    /\ kind[a] = "AddNode" /\ state[a] # VALID
    /\ args[a] # <<>> /\ Head(args[a]) = b
    /\ kind[b] = "AddNode" /\ state[b] # VALID
    /\ args[b] # <<>> /\ Head(args[b]) = a

\* C4 as stated: get_value(a) on a node whose computation reads a's own value
\* fails with DependencyCycle; the trace is [a] in the direct case and
\* [a, b, a] in the indirect case.
C4_TraceAsStated ==
    \A a \in Allocated : \A nd \in Choices :
        LET r == value_get(Heap, a, nd, RecursionLimit)
        IN  /\ ReadsItself(a) => (r.exc = "DependencyCycleError" /\ r.trace = <<a>>)
            /\ \A b \in Allocated : ReadsItselfThrough(a, b) =>
                   (r.exc = "DependencyCycleError" /\ r.trace = <<a, b, a>>)

\* C4 amended: the trace is the call stack followed by the node whose push
\* failed: [a, a] in the direct case and [a, b, a] in the indirect case.
C4_CycleTrace ==
    \A a \in Allocated : \A nd \in Choices :
        LET r == value_get(Heap, a, nd, RecursionLimit)
        IN  /\ ReadsItself(a) => (r.exc = "DependencyCycleError" /\ r.trace = <<a, a>>)
            /\ \A b \in Allocated : ReadsItselfThrough(a, b) =>
                   (r.exc = "DependencyCycleError" /\ r.trace = <<a, b, a>>)

\* a state with a direct and an indirect cycle whose reads fail as C4 says
C4_Witness ==
    \E a, b, c \in Allocated : \E nd \in Choices :
        /\ ReadsItself(a) /\ ReadsItselfThrough(b, c)
        /\ value_get(Heap, a, nd, RecursionLimit).trace = <<a, a>>
        /\ value_get(Heap, b, nd, RecursionLimit).trace = <<b, c, b>>

\* C5: after get_value fails with DependencyCycle, neither the node the call
\* was made on nor any node that was on the evaluation stack is PENDING.
C5_NoPendingAfterCycle ==
    \A n \in Allocated : \A nd \in Choices :
        LET r == value_get(Heap, n, nd, RecursionLimit)
        IN  r.exc = "DependencyCycleError" =>
                \A m \in {n} \cup {r.trace[i] : i \in 1..Len(r.trace)} : r.h.st[m] # PENDING

\* C6 as stated: every get_value either returns a value or fails with
\* DependencyCycle.
C6_ReturnsOrCycle ==
    \A n \in Allocated : \A nd \in Choices :
        value_get(Heap, n, nd, RecursionLimit).exc \in {"none", "DependencyCycleError"}

RECURSIVE ArgumentClosure(_, _)
ArgumentClosure(h, S) ==
    LET T == S \cup UNION {ArgsOf(h, a) : a \in S}
    IN  IF T = S THEN S ELSE ArgumentClosure(h, T)

\* an AddNode whose compute function can raise: reduce() over no argument,
\* or an addition
CanRaise(h, m) == h.kind[m] = "AddNode" /\ Len(h.args[m]) # 1

\* C6 amended: every get_value ends, on cyclic argument graphs too: it returns
\* a value, fails with DependencyCycle, or passes on the error raised by the
\* compute function of a node on its argument chain; the recursion never
\* outgrows the number of nodes.
C6_GetValueTerminates ==
    \A n \in Allocated : \A nd \in Choices :
        LET r == value_get(Heap, n, nd, RecursionLimit)
        IN  /\ r.exc \in {"none", "DependencyCycleError", "TypeError"}
            /\ r.exc = "TypeError" => \E m \in ArgumentClosure(Heap, {n}) : CanRaise(Heap, m)

\* a cyclic argument graph on which get_value fails with DependencyCycle
C6_Witness ==
    \E n \in Allocated : \E nd \in Choices :
        /\ n \in ArgumentClosure(Heap, ArgsOf(Heap, n))
        /\ value_get(Heap, n, nd, RecursionLimit).exc = "DependencyCycleError"

\* ------------------------------------------------------------------ C7
\* the top-level calls a client can make on the allocated nodes
TopLevelCalls ==
    UNION {
        {value_get(Heap, n, nd, RecursionLimit), invalidate(Heap, n, nd, RecursionLimit)}
        \cup {value_set(Heap, n, v, nd, RecursionLimit) : v \in InputValues}
        \cup {args_set(Heap, n, a, nd, RecursionLimit) : a \in SeqsUpTo(Allocated, MaxArgs)}
        : <<n, nd>> \in Allocated \X Choices}

\* C7: between top-level calls the evaluation call stack and its membership
\* set are empty, and every top-level get_value, set_value, invalidate or
\* set_args call, whether it returns or raises, leaves them as it found them.
C7_FramesArePopped ==
    /\ stack = <<>> /\ stack_nodes = {}
    /\ \A r \in TopLevelCalls : r.h.stack = stack /\ r.h.nodes = stack_nodes

\* a set_value that fails two frames deep in the cascade it started: the
\* variable x and its VALID dependent m have left VALID when the VALID
\* single-assignment dependent s of m refuses to be invalidated
C7_Witness ==
    \E x, m, s \in Allocated : \E nd \in Choices : \E v \in InputValues :
        /\ kind[x] = "VarNode" /\ state[x] = VALID
        /\ m \in dependents[x] /\ state[m] = VALID
        /\ s \in dependents[m] /\ kind[s] = "SingleAssignNode" /\ state[s] = VALID
        /\ LET r == value_set(Heap, x, v, nd, RecursionLimit)
           IN  /\ r.exc = "TypeError"
               /\ r.h.st[x] = INVALID /\ r.h.st[m] = INVALID
               /\ r.h.stack = <<>> /\ r.h.nodes = {}

\* ------------------------------------------------------------------ C8
\* the kinds that memoize on their constructor arguments: every kind but
\* VarNode, whose key is a fresh counter value, and the exclusive ones
ReuseKinds == (Kinds \ {"VarNode"}) \ SameKeyErrorKinds

\* C8: for a memoizing kind, a construct call whose key is registered returns
\* the registered instance and changes nothing (the initialization is not
\* run again); two construct calls in a row with equal kind and arguments
\* return the same instance, and the second one changes nothing.
C8_MemoizedConstruct ==
    \A cls \in ReuseKinds : \A cargs \in ConstructorArgs(cls, MaxArgs) : \A nd \in Choices :
        CanConstruct(cls, cargs) =>
            LET first == construct(Heap, cls, cargs, nd, RecursionLimit)
                second == construct(first.h, cls, cargs, nd, RecursionLimit)
            IN  /\ first.exc = "none" /\ second.exc = "none"
                /\ second.ret = first.ret
                /\ second.h = first.h
                /\ by_key_get(Heap, <<cls, cargs>>) # NoNode =>
                       (first.ret = by_key_get(Heap, <<cls, cargs>>) /\ first.h = Heap)

\* a memoized node that has since been read (it is VALID) and whose arguments
\* were replaced is constructed again: the same instance comes back
C8_Witness ==
    \E n \in Allocated : \E nd \in Choices :
        /\ kind[n] = "AddNode" /\ state[n] = VALID
        /\ key[n][2] # args[n]
        /\ construct(Heap, kind[n], key[n][2], nd, RecursionLimit).ret = n

\* ------------------------------------------------------------------ C9
\* C9: for an exclusive kind, a construct call whose key is registered fails
\* with SameKeyError and leaves the registry and the first instance as they
\* were.
C9_DuplicateRaisesSameKeyError ==
    \A cls \in SameKeyErrorKinds : \A cargs \in ConstructorArgs(cls, MaxArgs) : \A nd \in Choices :
        by_key_get(Heap, <<cls, cargs>>) # NoNode =>
            LET r == construct(Heap, cls, cargs, nd, RecursionLimit)
            IN  r.exc = "SameKeyError" /\ r.h = Heap

\* ------------------------------------------------------------------ C10
\* each key is registered to at most one instance, and every constructed
\* node is registered under its own key
RegistryIsConsistent ==
    /\ \A e, f \in by_key : e[1] = f[1] => e = f
    /\ \A n \in Allocated : <<key[n], n>> \in by_key

\* C10: in every reachable state the registry is consistent, and no step,
\* a failed construction included, removes an entry or binds its key to
\* another instance.
C10_RegistryIsStable ==
    /\ []RegistryIsConsistent
    /\ [][by_key \subseteq by_key' /\ \A n \in Allocated : key'[n] = key[n]]_vars

\* the registry holds an entry of every instance, one of them of an exclusive
\* kind whose construction is then attempted again and fails
C10_Witness ==
    /\ Cardinality(by_key) = MaxNodes
    /\ \E n \in Allocated : \E nd \in Choices :
           /\ kind[n] \in SameKeyErrorKinds
           /\ construct(Heap, kind[n], key[n][2], nd, RecursionLimit).exc # "none"

\* ------------------------------------------------------------------ C11
\* C11: reference counts are never negative, and node c is in the dependents
\* of node p exactly when c's refcount for p is positive; when p is twice an
\* argument of c, removing one occurrence keeps the edge and removing both
\* drops it.
C11_EdgeIffRefcount ==
    /\ \A c, p \in Nodes :
           /\ arg_refcount[c][p] >= 0
           /\ c \in dependents[p] <=> arg_refcount[c][p] > 0
    /\ \A c, p \in Allocated : \A nd \in ArgChoices(c) :
           (args[c] = <<p, p>> /\ arg_refcount[c][p] = 2) =>
               LET one == args_delslice(Heap, c, Some(0), Some(1), nd, RecursionLimit)
                   both == args_delslice(Heap, c, Absent, Absent, nd, RecursionLimit)
               IN  /\ one.exc = "none" =>
                          (one.h.args[c] = <<p>> /\ c \in one.h.deps[p])
                   /\ both.exc = "none" =>
                          (both.h.args[c] = <<>> /\ c \notin both.h.deps[p])

\* p is twice an argument of c and counted twice, and both removals succeed
C11_Witness ==
    \E c, p \in Allocated : \E nd \in ArgChoices(c) :
        /\ c # p /\ args[c] = <<p, p>> /\ arg_refcount[c][p] = 2
        /\ dependents[p] = {c}
        /\ args_delslice(Heap, c, Some(0), Some(1), nd, RecursionLimit).exc = "none"
        /\ args_delslice(Heap, c, Absent, Absent, nd, RecursionLimit).h.deps[p] = {}

\* ------------------------------------------------------------------ C12
\* C12: after set_value(n, v) on a variable node returns without error, n is
\* VALID with cached value v, whatever its state and value were before, and
\* every node that depends on n, directly or transitively, and was VALID
\* under the old value is not VALID.
C12_SetValueValidates ==
    \A n \in Allocated : \A v \in InputValues : \A nd \in Choices :
        LET r == value_set(Heap, n, v, nd, RecursionLimit)
        IN  (kind[n] = "VarNode" /\ r.exc = "none") =>
                /\ r.h.st[n] = VALID
                /\ r.h.val[n] = v
                /\ value[n] # v =>
                       \A a \in TransitiveDependents(Heap, n) \ {n} : r.h.st[a] # VALID

\* ------------------------------------------------------------------ C13
\* the events of node m among evs, in the order they were fired
EventsOf(evs, m) == SelectSeq(evs, LAMBDA e : e.node = m)

RECURSIVE IsChangeChain(_, _, _)
\* evs reports the replacements that lead from value from to value to: each
\* event carries the value it replaced and a different new value
IsChangeChain(evs, from, to) ==
    IF evs = <<>> THEN from = to
    ELSE /\ Head(evs).old_value = from
         /\ Head(evs).new_value # from
         /\ IsChangeChain(Tail(evs), Head(evs).new_value, to)

\* C13: a value-changed event is fired exactly when a cached value is
\* replaced by a different one: in every top-level call the events of each
\* node report, one by one with old and new value, the replacements that
\* lead from its value before the call to its value after it; assigning a
\* node its cached value fires none, assigning a variable node another
\* value fires exactly one.
C13_ValueEvents ==
    /\ \A r \in TopLevelCalls : \A m \in Nodes :
           IsChangeChain(EventsOf(r.h.events, m), value[m], r.h.val[m])
    /\ \A n \in Allocated : \A v \in InputValues : \A nd \in Choices :
           LET r == value_set(Heap, n, v, nd, RecursionLimit)
           IN  /\ v = value[n] => r.h.events = <<>>
               /\ (v # value[n] /\ r.exc = "none") =>
                      r.h.events = <<NodeValueEvent(n, value[n], v)>>

\* a read that replaces the values of two nodes and fires an event for each,
\* beside a variable node whose assignments fire none or one
C13_Witness ==
    \E n, x \in Allocated : \E nd \in Choices :
        /\ Len(value_get(Heap, n, nd, RecursionLimit).h.events) = 2
        /\ kind[x] = "VarNode"
        /\ value_set(Heap, x, value[x], nd, RecursionLimit).h.events = <<>>
        /\ \E v \in InputValues :
               value_set(Heap, x, v, nd, RecursionLimit).h.events
                   = <<NodeValueEvent(x, value[x], v)>>

\* ------------------------------------------------------------------ C14
\* the single-assignment and constant nodes that are VALID
ValidSingleAssign == {n \in Allocated : kind[n] \in SingleAssignKinds /\ state[n] = VALID}

\* every invalidate() that reaches a VALID single-assignment node, directly
\* or through the cascade of a VALID parent, and every assignment of another
\* value to it, fails with TypeError
MutationIsRefused ==
    \A n \in ValidSingleAssign : \A nd \in Choices :
        /\ invalidate(Heap, n, nd, RecursionLimit).exc = "TypeError"
        /\ \A v \in InputValues \ {value[n]} :
               value_set(Heap, n, v, nd, RecursionLimit).exc = "TypeError"
        /\ \A p \in Allocated :
               (n \in dependents[p] /\ state[p] = VALID) =>
                   invalidate(Heap, p, nd, RecursionLimit).exc = "TypeError"

\* C14: once a single-assignment or constant node is VALID, every later
\* invalidate() on it, direct or through a cascade, and every set_value with
\* a different value fails with the illegal-mutation error (TypeError), and
\* in every later state the node is VALID with the same cached value.
C14_SingleAssignIsFinal ==
    /\ []MutationIsRefused
    /\ [][\A n \in ValidSingleAssign : state'[n] = VALID /\ value'[n] = value[n]]_vars

\* a VALID single-assignment node that depends on a VALID variable, beside a
\* constant: the cascade from the variable is refused
C14_Witness ==
    \E s, x, c \in Allocated : \E nd \in Choices :
        /\ kind[s] = "SingleAssignNode" /\ s \in ValidSingleAssign
        /\ kind[c] = "ConstNode" /\ c \in ValidSingleAssign
        /\ kind[x] = "VarNode" /\ state[x] = VALID /\ s \in dependents[x]
        /\ invalidate(Heap, x, nd, RecursionLimit).exc = "TypeError"

\* ------------------------------------------------------------------ C15
\* the nodes that were VALID before a call are VALID with the same cached
\* value in the heap h the call leaves behind
ValidNodesKept(h) ==
    \A m \in Allocated : state[m] = VALID => (h.st[m] = VALID /\ h.val[m] = value[m])

\* C15: when a call fails with DependencyCycle (a value read) or with the
\* illegal-mutation error (TypeError of an invalidate, a value assignment or
\* an args assignment), every node that was VALID before the call is still
\* VALID afterwards with the same cached value.
C15_FailureInvalidatesNothing ==
    \A n \in Allocated : \A nd \in Choices :
        /\ LET r == value_get(Heap, n, nd, RecursionLimit)
           IN  r.exc = "DependencyCycleError" => ValidNodesKept(r.h)
        /\ LET r == invalidate(Heap, n, nd, RecursionLimit)
           IN  r.exc = "TypeError" => ValidNodesKept(r.h)
        /\ \A v \in InputValues :
               LET r == value_set(Heap, n, v, nd, RecursionLimit)
               IN  r.exc = "TypeError" => ValidNodesKept(r.h)
        /\ \A a \in SeqsUpTo(Allocated, MaxArgs) :
               LET r == args_set(Heap, n, a, nd, RecursionLimit)
               IN  r.exc = "TypeError" => ValidNodesKept(r.h)

\* ------------------------------------------------------------------ C16
\* the nodes of a sequence
Range(seq) == {seq[i] : i \in 1..Len(seq)}

\* no node on the argument chain of n in heap h is its own argument,
\* directly or transitively
Acyclic(h, n) ==
    \A m \in ArgumentClosure(h, {n}) : m \notin ArgumentClosure(h, ArgsOf(h, m))

\* no compute function on the argument chain of n in heap h raises
ChainComputes(h, n) == \A m \in ArgumentClosure(h, {n}) : ~CanRaise(h, m)

\* in heap h a value read on n returns what its compute function yields on
\* the values that reads of its arguments return
ReadsFromArguments(h, n, nd) ==
    /\ value_get(h, n, nd, RecursionLimit).exc = "none"
    /\ h.kind[n] = "AddNode" =>
           value_get(h, n, nd, RecursionLimit).ret
               = value_get(h, Head(h.args[n]), nd, RecursionLimit).ret

\* heap failed is left by a value read on n that failed with DependencyCycle
\* on the nodes cyc: reads of the nodes whose argument chain avoids cyc, and
\* any other cycle, still succeed, and when a replacement of the arguments of a node of cyc removes
\* the cycle, the read on n succeeds and returns the value computed from its
\* arguments
Recovers(failed, n, cyc, nd) ==
    /\ \A m \in Allocated :
           (/\ ArgumentClosure(failed, {m}) \cap cyc = {}
            /\ Acyclic(failed, m) /\ ChainComputes(failed, m)) =>
               value_get(failed, m, nd, RecursionLimit).exc = "none"
    /\ \A a \in cyc : \A new \in SeqsUpTo(Allocated, MaxArgs) :
           LET fixed == args_set(failed, a, new, nd, RecursionLimit)
           IN  (fixed.exc = "none" /\ Acyclic(fixed.h, n) /\ ChainComputes(fixed.h, n)) =>
                   ReadsFromArguments(fixed.h, n, nd)

\* C16: a DependencyCycle failure is recoverable: after a value read failed
\* with DependencyCycle, reads of the nodes whose argument chain does not
\* contain the cycle succeed, and once the cycle is removed by replacing
\* arguments the read on the formerly failing node succeeds and returns the
\* value computed from its current arguments.
C16_CycleIsRecoverable ==
    \A n \in Allocated : \A nd \in Choices :
        LET r == value_get(Heap, n, nd, RecursionLimit)
        IN  r.exc = "DependencyCycleError" => Recovers(r.h, n, Range(r.trace), nd)

\* a read fails on a cycle of two nodes beside a variable that is still
\* readable; rewiring one node of the cycle to the variable lets the read
\* return the variable's value
C16_Witness ==
    \E a, b, x \in Allocated : \E nd \in Choices :
        /\ ReadsItselfThrough(a, b) /\ kind[x] = "VarNode" /\ value[x] # None
        /\ LET failed == value_get(Heap, a, nd, RecursionLimit).h
               fixed == args_set(failed, b, <<x>>, nd, RecursionLimit).h
           IN  /\ value_get(Heap, a, nd, RecursionLimit).exc = "DependencyCycleError"
               /\ value_get(failed, x, nd, RecursionLimit).exc = "none"
               /\ value_get(fixed, a, nd, RecursionLimit).exc = "none"
               /\ value_get(fixed, a, nd, RecursionLimit).ret = value[x]

\* ------------------------------------------------------------------ C17
\* the call returned, and left node n not VALID
LeavesNotValid(r, n) == r.exc = "none" => r.h.st[n] # VALID

\* i designates an element of a list of length len
IsIndexOf(i, len) == 0 - len <= i /\ i < len

\* C17: any change to a node's arguments invalidates it: after args are
\* set to a different list, or after a single insertion, replacement or
\* removal in the positional arguments, the node is not VALID (the
\* operations that the node's kind refuses raise, and are not concerned).
C17_ArgChangeInvalidates ==
    \A n \in Allocated : \A nd \in ArgChoices(n) :
        /\ \A a \in SeqsUpTo(Allocated, MaxArgs) :
               a # args[n] => LeavesNotValid(args_set(Heap, n, a, nd, RecursionLimit), n)
        /\ \A i \in ArgIndices : \A v \in Allocated :
               LeavesNotValid(args_insert(Heap, n, i, v, nd, RecursionLimit), n)
        /\ \A i \in ArgIndices : \A v \in Allocated :
               IsIndexOf(i, Len(args[n])) =>
                   LeavesNotValid(args_setitem(Heap, n, i, v, nd, RecursionLimit), n)
        /\ \A i \in ArgIndices :
               IsIndexOf(i, Len(args[n])) =>
                   LeavesNotValid(args_delitem(Heap, n, i, nd, RecursionLimit), n)
        /\ \A i \in 0..(Len(args[n]) - 1) :
               LeavesNotValid(args_delslice(Heap, n, Some(i), Some(i + 1), nd, RecursionLimit), n)

\* ------------------------------------------------------------------ C18
\* a depends on b, b depends on c, and all three are VALID
ValidChain(a, b, c) ==
    /\ a # b /\ b # c /\ a # c
    /\ args[a] = <<b>> /\ args[b] = <<c>>
    /\ state[a] = VALID /\ state[b] = VALID /\ state[c] = VALID

\* C18: given a depends on b and b depends on c with all three VALID,
\* invalidate(c) leaves the three INVALID, the next read of a runs the
\* compute function of c, then b, then a, each exactly once, and a further
\* read of a runs no compute function at all.
C18_RecomputeOnceInOrder ==
    \A a, b, c \in Allocated : \A nd \in Choices :
        ValidChain(a, b, c) =>
            LET inv == invalidate(Heap, c, nd, RecursionLimit)
                first == value_get(inv.h, a, nd, RecursionLimit)
                further == value_get(first.h, a, nd, RecursionLimit)
            IN  /\ inv.exc = "none"
                /\ \A m \in {a, b, c} : inv.h.st[m] = INVALID
                /\ first.exc = "none"
                /\ first.h.computed = <<c, b, a>>
                /\ further.exc = "none"
                /\ further.h.computed = first.h.computed

\* ------------------------------------------------------------------ a plain list
\* What Python's built-in list does under the same operations: the
\* exception raised, the contents left, and the elements removed and added.
PlainResult(exc, data, removed, added) ==
    [exc |-> exc, data |-> data, removed |-> removed, added |-> added]

\* slice.indices(len): the start, stop and step that range() is given
plain_lower(len, k) == IF k < 0 THEN -1 ELSE 0
plain_upper(len, k) == IF k < 0 THEN len - 1 ELSE len
plain_bound(len, i, k, default) ==
    IF i = Absent THEN default
    ELSE IF i[1] < 0 THEN Max(i[1] + len, plain_lower(len, k))
    ELSE Min(i[1], plain_upper(len, k))
plain_step(s) == IF s.step = Absent THEN 1 ELSE s.step[1]
plain_start(len, s) ==
    plain_bound(len, s.start, plain_step(s),
                IF plain_step(s) < 0 THEN plain_upper(len, plain_step(s))
                ELSE plain_lower(len, plain_step(s)))
plain_stop(len, s) ==
    plain_bound(len, s.stop, plain_step(s),
                IF plain_step(s) < 0 THEN plain_lower(len, plain_step(s))
                ELSE plain_upper(len, plain_step(s)))

RECURSIVE plain_range(_, _, _)
\* list(range(start, stop, step)), step # 0
plain_range(start, stop, step) ==
    IF (step > 0 /\ start < stop) \/ (step < 0 /\ start > stop)
    THEN <<start>> \o plain_range(start + step, stop, step)
    ELSE <<>>

\* list(range(*s.indices(len))): the indices that lst[s] touches
plain_indices(len, s) == plain_range(plain_start(len, s), plain_stop(len, s), plain_step(s))

\* the elements of data at the 0-based indices ix, in the order of ix
ElementsAt(data, ix) == [p \in 1..Len(ix) |-> data[ix[p] + 1]]

\* data without the elements at the 0-based indices of the set drop
RECURSIVE Without(_, _, _)
Without(data, drop, p) ==
    IF p > Len(data) THEN <<>>
    ELSE (IF (p - 1) \in drop THEN <<>> ELSE <<data[p]>>) \o Without(data, drop, p + 1)

\* lst[i] = element
plain_setitem(data, i, element) ==
    IF ~IsIndexOf(i, Len(data)) THEN PlainResult("IndexError", data, <<>>, <<>>)
    ELSE PlainResult("none", [data EXCEPT ![(i % Len(data)) + 1] = element],
                     <<data[(i % Len(data)) + 1]>>, <<element>>)

\* del lst[i]
plain_delitem(data, i) ==
    IF ~IsIndexOf(i, Len(data)) THEN PlainResult("IndexError", data, <<>>, <<>>)
    ELSE PlainResult("none", Without(data, {i % Len(data)}, 1),
                     <<data[(i % Len(data)) + 1]>>, <<>>)

\* lst.insert(index, element)
plain_insert(data, index, element) ==
    LET at == IF index < 0 THEN Max(index + Len(data), 0) ELSE Min(index, Len(data))
    IN  PlainResult("none",
                    SubSeq(data, 1, at) \o <<element>> \o SubSeq(data, at + 1, Len(data)),
                    <<>>, <<element>>)

\* lst.clear()
plain_clear(data) == PlainResult("none", <<>>, data, <<>>)

\* lst[s] = added
plain_setslice(data, s, added) ==
    LET ix == plain_indices(Len(data), s)
        at == plain_start(Len(data), s)
    IN  IF s.step = Some(0) THEN PlainResult("ValueError", data, <<>>, <<>>)
        ELSE IF plain_step(s) = 1
        THEN PlainResult("none",
                         SubSeq(data, 1, at) \o added
                             \o SubSeq(data, at + Len(ix) + 1, Len(data)),
                         ElementsAt(data, ix), added)
        ELSE IF Len(ix) # Len(added) THEN PlainResult("ValueError", data, <<>>, <<>>)
        ELSE PlainResult("none",
                         [p \in 1..Len(data) |->
                             IF \E q \in 1..Len(ix) : ix[q] = p - 1
                             THEN added[CHOOSE q \in 1..Len(ix) : ix[q] = p - 1]
                             ELSE data[p]],
                         ElementsAt(data, ix), added)

\* del lst[s]
plain_delslice(data, s) ==
    LET ix == plain_indices(Len(data), s)
    IN  IF s.step = Some(0) THEN PlainResult("ValueError", data, <<>>, <<>>)
        ELSE PlainResult("none", Without(data, Range(ix), 1), ElementsAt(data, ix), <<>>)

\* ------------------------------------------------------------------ C19
RECURSIVE Flatten(_)
Flatten(seqs) == IF seqs = <<>> THEN <<>> ELSE Head(seqs) \o Flatten(Tail(seqs))

\* the elements that the mutation records of an operation report as removed
\* and as added, in the order of delivery
ReportedRemoved(r) == Flatten([p \in 1..Len(r.notes) |-> r.notes[p].removed])
ReportedAdded(r) == Flatten([p \in 1..Len(r.notes) |-> r.notes[p].added])

\* the elements of a sequence with their multiplicities
Count(seq, e) == Cardinality({p \in 1..Len(seq) : seq[p] = e})
SameElements(a, b) == Len(a) = Len(b) /\ \A e \in Range(a) \cup Range(b) : Count(a, e) = Count(b, e)

\* where the plain list performs the operation, the observable list performs
\* it too and leaves the same contents, and its mutation records report
\* exactly the removed and the added elements
LikePlainList(r, plain) ==
    plain.exc = "none" =>
        /\ r.exc = "none"
        /\ r.data = plain.data
        /\ SameElements(ReportedRemoved(r), plain.removed)
        /\ SameElements(ReportedAdded(r), plain.added)

\* C19: every mutating operation on an observable list (assignment and
\* deletion at an index, insert, clear, slice assignment and deletion with
\* and without a step) leaves the contents that the operation leaves in a
\* plain list, and its mutation records report exactly the elements removed
\* and the elements added.
C19_ListFidelity ==
    /\ \A i \in ListIndices : \A element \in Elements :
           /\ LikePlainList(setitem_int(_data, i, element), plain_setitem(_data, i, element))
           /\ LikePlainList(insert(_data, i, element), plain_insert(_data, i, element))
    /\ \A i \in ListIndices : LikePlainList(delitem_int(_data, i), plain_delitem(_data, i))
    /\ LikePlainList(clear(_data), plain_clear(_data))
    /\ \A s \in Slices :
           /\ LikePlainList(delitem_slice(_data, s), plain_delslice(_data, s))
           /\ \A added \in AddedLists :
                  LikePlainList(setitem_slice(_data, s, added), plain_setslice(_data, s, added))

\* the example of C19: deleting lst[::2] from [0,1,2,3,4] yields [1,3]
C19_DeleteEverySecond ==
    _data = <<0, 1, 2, 3, 4>> =>
        delitem_slice(_data, Slice(Absent, Absent, Some(2))).data = <<1, 3>>

\* ------------------------------------------------------------------ C20
\* C20: for every list length and every start, stop and non-zero step, the
\* index sequence computed for a stepped slice is the sequence of indices that
\* Python's slicing touches, range(*slice.indices(len)); a zero step is
\* rejected; a stepped assignment whose replacement length differs from the
\* index count is rejected and leaves the list as it was.
C20_SliceIndices ==
    \A s \in Slices :
        /\ s.step = Some(0) => _slice_indices(Len(_data), s).exc = "ValueError"
        /\ (_is_extended_slice(s) /\ s.step # Some(0)) =>
               /\ _slice_indices(Len(_data), s).exc = "none"
               /\ _slice_indices(Len(_data), s).ret = plain_indices(Len(_data), s)
               /\ \A added \in AddedLists :
                      Len(added) # Len(_slice_indices(Len(_data), s).ret) =>
                          /\ setitem_slice(_data, s, added).exc = "ValueError"
                          /\ setitem_slice(_data, s, added).data = _data

\* ------------------------------------------------------------------ C21
\* the stack and the membership set of heap h are those of the current state
StackKept(h) == h.stack = stack /\ h.nodes = stack_nodes

\* the stack holds no node twice, and the membership set is the set of its nodes
StackIsWellFormed ==
    /\ \A p, q \in 1..Len(stack) : stack[p] = stack[q] => p = q
    /\ stack_nodes = Range(stack)

\* a push of a node on the stack raises DependencyCycleError, and a pop from
\* the empty stack or of a node that is not the top raises; both leave the
\* stack and the set as they were
StackRefuses ==
    \A n \in Allocated :
        /\ n \in Range(stack) =>
               /\ _push(Heap, n).exc = "DependencyCycleError"
               /\ StackKept(_push(Heap, n).h)
        /\ (stack = <<>> \/ stack[Len(stack)] # n) =>
               /\ _pop(Heap, n).exc # "none"
               /\ StackKept(_pop(Heap, n).h)

\* C21: in every reachable state the call stack holds no node twice and its
\* membership set is the set of the nodes of the stack; a push of a node
\* already on the stack fails with DependencyCycleError, a pop fails when the
\* stack is empty or the node is not the top, and a failed push or pop
\* leaves the stack and the set unchanged.
C21_StackIsConsistent == StackIsWellFormed /\ StackRefuses

\* two nodes are on the stack: the push of the lower one and its pop are
\* both refused
C21_Witness ==
    /\ Len(stack) = 2
    /\ _push(Heap, stack[1]).exc = "DependencyCycleError"
    /\ _pop(Heap, stack[1]).exc = "TypeError"
    /\ _pop(Heap, stack[2]).exc = "none"

\* ------------------------------------------------------------------ C22
\* C22: invalidate(n) terminates, also where argument edges form a cycle
\* among VALID nodes, and does not fail with DependencyCycleError; it moves
\* each VALID transitive dependent of a VALID n to INVALID exactly once, and
\* changes nothing when n is already INVALID.
C22_InvalidateTerminates ==
    \A n \in Allocated : \A nd \in Choices :
        LET r == invalidate(Heap, n, nd, RecursionLimit)
        IN  /\ r.exc = "none"
            /\ state[n] = VALID =>
                   \A m \in TransitiveDependents(Heap, n) \cup {n} :
                       state[m] = VALID =>
                           r.h.st[m] = INVALID /\ Count(r.h.invalidated, m) = 1
            /\ state[n] = INVALID => r.h = Heap

\* ------------------------------------------------------------------ C23
\* C23: in every reachable state, after any sequence of argument mutations
\* including the rejected ones, the refcount of node c for node p is the
\* number of times p occurs among the arguments of c (0 standing for no
\* entry).
C23_RefcountIsOccurrences ==
    \A c, p \in Nodes : arg_refcount[c][p] = Count(args[c], p)

\* ------------------------------------------------------------------ C24
\* a value read of x in heap h returns v
Reads(h, x, v, nd) ==
    /\ value_get(h, x, nd, RecursionLimit).exc = "none"
    /\ value_get(h, x, nd, RecursionLimit).ret = v

\* C24: a value read of a variable node returns the value most recently
\* assigned to it: right after the assignment, after an invalidate() of the
\* variable node itself, and after a second assignment of the same value.
C24_VarNodeKeepsValue ==
    \A x \in Allocated : \A v \in InputValues : \A nd \in Choices :
        LET assigned == value_set(Heap, x, v, nd, RecursionLimit)
            invalidated == invalidate(assigned.h, x, nd, RecursionLimit)
            reassigned == value_set(assigned.h, x, v, nd, RecursionLimit)
        IN  (kind[x] = "VarNode" /\ assigned.exc = "none") =>
                /\ Reads(assigned.h, x, v, nd)
                /\ invalidated.exc = "none" => Reads(invalidated.h, x, v, nd)
                /\ reassigned.exc = "none" => Reads(reassigned.h, x, v, nd)

\* ------------------------------------------------------------------ C25
\* the kind and the state of n let no argument of n change: n is an
\* independent node that was constructed, or a VALID single-assignment node
RefusesArguments(n) ==
    \/ HasErrorListener(Heap, n)
    \/ kind[n] \in SingleAssignKinds /\ state[n] = VALID

\* the call was rejected with the illegal-mutation error, and left the
\* argument lists, the refcounts and the dependents sets as they were
RejectedWithoutTrace(r) ==
    r.exc = "TypeError" =>
        /\ r.h.args = args
        /\ r.h.rc = arg_refcount
        /\ r.h.deps = dependents

\* C25: when an argument mutation of a node is rejected with the
\* illegal-mutation error (any change on a constructed independent node, a
\* change on a VALID single-assignment node), the node's argument list, its
\* refcounts and every dependents set are as before the attempt.
C25_RejectedMutationChangesNothing ==
    \A n \in Allocated : \A nd \in ArgChoices(n) :
        RefusesArguments(n) =>
            /\ \A a \in SeqsUpTo(Allocated, MaxArgs) :
                   RejectedWithoutTrace(args_set(Heap, n, a, nd, RecursionLimit))
            /\ \A i \in ArgIndices : \A v \in Allocated :
                   /\ RejectedWithoutTrace(args_insert(Heap, n, i, v, nd, RecursionLimit))
                   /\ RejectedWithoutTrace(args_setitem(Heap, n, i, v, nd, RecursionLimit))
            /\ \A i \in 0..(Len(args[n]) - 1) :
                   RejectedWithoutTrace(
                       args_delslice(Heap, n, Some(i), Some(i + 1), nd, RecursionLimit))

====
